---- MODULE Spec2Model ----
(***************************************************************************)
(* Pad foundation analysis and design per ACI 318M-25:                     *)
(*   FoundationDesign/concretedesignfunc_aci318.py  (section capacities)   *)
(*   FoundationDesign/foundationdesign_aci318.py    (PadFoundationACI318,  *)
(*                                                   padFoundationDesign)  *)
(*                                                                         *)
(* Python floats are modelled as exact rationals [n |-> num, d |-> den]     *)
(* in lowest terms with d > 0.  round(x, k) is round-half-even to k         *)
(* decimals.  math.sqrt is exact on perfect squares and otherwise          *)
(* truncated to three decimals.  A raised exception is the record          *)
(* [raised |-> <name>]; None and float('inf') are the records None and     *)
(* Inf.                                                                    *)
(***************************************************************************)
EXTENDS Integers, Sequences, FiniteSets, TLC

(***************************************************************************)
(* Exact rational arithmetic                                               *)
(***************************************************************************)
Abs(x) == IF x < 0 THEN -x ELSE x

RECURSIVE GCD(_, _)
GCD(a, b) == IF b = 0 THEN a ELSE GCD(b, a % b)

\* n/d in lowest terms, sign carried by the numerator (d # 0)
R(n, d) ==
    LET g == GCD(Abs(n), Abs(d))
        s == IF d < 0 THEN -1 ELSE 1
    IN  [n |-> s * (n \div g), d |-> s * (d \div g)]

Q(i) == [n |-> i, d |-> 1]

QNeg(a) == [n |-> -a.n, d |-> a.d]

QAdd(a, b) ==
    LET g == GCD(a.d, b.d)
    IN  R(a.n * (b.d \div g) + b.n * (a.d \div g), (a.d \div g) * b.d)

QSub(a, b) == QAdd(a, QNeg(b))

QMul(a, b) ==
    LET g1 == GCD(Abs(a.n), b.d)
        g2 == GCD(Abs(b.n), a.d)
    IN  IF a.n = 0 \/ b.n = 0 THEN Q(0)
        ELSE [n |-> (a.n \div g1) * (b.n \div g2),
              d |-> (a.d \div g2) * (b.d \div g1)]

\* 1/a (a # 0)
QInv(a) == IF a.n < 0 THEN [n |-> -a.d, d |-> -a.n] ELSE [n |-> a.d, d |-> a.n]

\* a/b (b # 0; the callers decide what a zero divisor raises)
QDiv(a, b) == QMul(a, QInv(b))

QLe(a, b) ==
    LET g == GCD(a.d, b.d)
    IN  a.n * (b.d \div g) <= b.n * (a.d \div g)

QLt(a, b) == ~QLe(b, a)

QMax(a, b) == IF QLe(b, a) THEN a ELSE b

QMin(a, b) == IF QLe(a, b) THEN a ELSE b

QIsZero(a) == a.n = 0

RECURSIVE Pow10(_)
Pow10(k) == IF k = 0 THEN 1 ELSE 10 * Pow10(k - 1)

RECURSIVE FloorScale(_, _, _)
\* floor(n * 10^k / d) by long division (d > 0)
FloorScale(n, d, k) ==
    IF k = 0 THEN n \div d
    ELSE (n \div d) * Pow10(k) + FloorScale((n % d) * 10, d, k - 1)

RECURSIVE RemScale(_, _, _)
\* (n * 10^k) mod d (d > 0)
RemScale(n, d, k) == IF k = 0 THEN n % d ELSE RemScale((n % d) * 10, d, k - 1)

\* Python round(a, k): a * 10^k to the nearest integer, ties to
\* the even one, over 10^k
Round(a, k) ==
    LET G == FloorScale(2 * a.n, a.d, k)
        f == G \div 2
        tie == RemScale(2 * a.n, a.d, k) = 0
    IN  R(IF G % 2 = 0 THEN f
          ELSE IF tie /\ f % 2 = 0 THEN f
          ELSE f + 1, Pow10(k))

RECURSIVE ISqrtBetween(_, _, _)
\* the largest r in lo..hi with r*r <= m (lo*lo <= m)
ISqrtBetween(m, lo, hi) ==
    IF lo = hi THEN lo
    ELSE LET mid == (lo + hi + 1) \div 2
         IN  IF mid * mid <= m THEN ISqrtBetween(m, mid, hi)
             ELSE ISqrtBetween(m, lo, mid - 1)

\* floor(sqrt(m)); 46340 is the largest root whose square fits the integers
ISqrt(m) == ISqrtBetween(m, 0, IF m < 46340 THEN m ELSE 46340)

IsSquare(m) == ISqrt(m) * ISqrt(m) = m

\* math.sqrt(a) for a >= 0: exact on perfect squares, else truncated to
\* three decimals
Sqrt(a) ==
    IF IsSquare(a.n) /\ IsSquare(a.d) THEN R(ISqrt(a.n), ISqrt(a.d))
    ELSE R(ISqrt(FloorScale(a.n, a.d, 6)), 1000)

\* Python's None and float('inf')
None == [none |-> TRUE]

Inf == [inf |-> TRUE]

(***************************************************************************)
(* concretedesignfunc_aci318.py                                            *)
(***************************************************************************)
Raised(e) == [raised |-> e]

IsRaised(r) == "raised" \in DOMAIN r

\* a slip: the interpolation carried on above 55 and the floor of 0.65 left out
whitney_stress_block_factor_unclamped(fc_prime) ==
    IF QLe(fc_prime, Q(28)) THEN R(85, 100)
    ELSE QSub(R(85, 100), QDiv(QMul(R(5, 100), QSub(fc_prime, Q(28))), Q(7)))

whitney_stress_block_factor(fc_prime) ==
    LET beta1 ==
            IF QLe(fc_prime, Q(28)) THEN R(85, 100)
            ELSE IF QLe(fc_prime, Q(55))
                 THEN QSub(R(85, 100),
                           QDiv(QMul(R(5, 100), QSub(fc_prime, Q(28))), Q(7)))
                 ELSE R(65, 100)
    IN  QMax(beta1, R(65, 100))

\* Mu/phi, Rn, rho_max, sqrt_term and rho_required of flexural_design_aci318
\* (b * d**2 # 0)
flexural_Rn(Mu, b, d, phi) == QDiv(QDiv(Mu, phi), QMul(b, QMul(d, d)))

flexural_rho_max(d, fc_prime, fy) ==
    LET beta1 == whitney_stress_block_factor(fc_prime)
        c_max == QDiv(d, QAdd(Q(1), QDiv(QMul(R(5, 1000), Q(200000)),
                                         QMul(R(3, 1000), Q(200000)))))
    IN  QDiv(QMul(QDiv(QMul(QMul(R(85, 100), beta1), fc_prime), fy), c_max), d)

flexural_sqrt_term(Mu, b, d, fc_prime, phi) ==
    QSub(Q(1), QDiv(QMul(Q(2), flexural_Rn(Mu, b, d, phi)),
                    QMul(R(85, 100), fc_prime)))

flexural_rho_required(Mu, b, d, fc_prime, fy, phi) ==
    QMul(QDiv(QMul(R(85, 100), fc_prime), fy),
         QSub(Q(1), Sqrt(flexural_sqrt_term(Mu, b, d, fc_prime, phi))))

\* a slip: a zero discriminant taken for a negative one
flexural_needs_compression_steel_at_zero(sqrt_term) == QLe(sqrt_term, Q(0))

\* if sqrt_term < 0
flexural_needs_compression_steel(sqrt_term) == QLt(sqrt_term, Q(0))

StatusCompression == "FAIL - Compression reinforcement required"

StatusExceeds == "FAIL - Exceeds maximum reinforcement ratio"

flexural_design_aci318(Mu, b, d, fc_prime, fy, phi) ==
    IF \/ QIsZero(phi) \/ QIsZero(QMul(b, QMul(d, d)))
       \/ QIsZero(fy) \/ QIsZero(fc_prime)
    THEN Raised("ZeroDivisionError")
    ELSE LET rho_max == flexural_rho_max(d, fc_prime, fy)
             sqrt_term == flexural_sqrt_term(Mu, b, d, fc_prime, phi)
             rho_required == flexural_rho_required(Mu, b, d, fc_prime, fy, phi)
         IN  IF flexural_needs_compression_steel(sqrt_term)
             THEN [status |-> StatusCompression,
                   area_of_steel |-> None,
                   rho_required |-> None,
                   compression_steel_required |-> TRUE]
             ELSE IF QLt(rho_max, rho_required)
             THEN [status |-> StatusExceeds,
                   area_of_steel |-> None,
                   rho_required |-> rho_required,
                   rho_max |-> rho_max,
                   compression_steel_required |-> TRUE]
             ELSE [status |-> "PASS",
                   area_of_steel |-> Round(QMul(QMul(rho_required, b), d), 0),
                   rho_required |-> rho_required,
                   rho_max |-> rho_max,
                   Mn_provided |-> None,
                   compression_steel_required |-> FALSE]

\* fy # 0
minimum_flexural_reinforcement_aci318(b, d, fc_prime, fy) ==
    LET As_min1 == QDiv(QMul(QMul(R(14, 10), b), d), fy)
        As_min2 == QDiv(QMul(QMul(Sqrt(fc_prime), b), d), QMul(Q(4), fy))
    IN  Round(QMax(As_min1, As_min2), 0)

one_way_shear_strength_aci318(b, d, fc_prime, lambda_factor) ==
    Round(QMul(QMul(QMul(QMul(R(17, 100), lambda_factor), Sqrt(fc_prime)), b), d), 0)

\* the three candidate strengths of punching_shear_strength_aci318
\* (beta_c # 0, bo # 0)
punching_Vc1(bo, d, fc_prime, beta_c, lambda_factor) ==
    QDiv(QMul(QMul(QMul(QMul(QAdd(Q(2), QDiv(Q(4), beta_c)), lambda_factor),
                        Sqrt(fc_prime)), bo), d), Q(6))

punching_Vc2(bo, d, fc_prime, alpha_s, lambda_factor) ==
    QDiv(QMul(QMul(QMul(QMul(QAdd(QDiv(QMul(alpha_s, d), bo), Q(2)), lambda_factor),
                        Sqrt(fc_prime)), bo), d), Q(6))

punching_Vc3(bo, d, fc_prime, lambda_factor) ==
    QDiv(QMul(QMul(QMul(QMul(Q(4), lambda_factor), Sqrt(fc_prime)), bo), d), Q(6))

\* Python min(a, b, c): the first smallest argument
Min3(a, b, c) == QMin(QMin(a, b), c)

\* a slip: the candidates compared in the order Vc3, Vc2, Vc1
punching_governing_case_reversed(Vc, Vc1, Vc2, Vc3) ==
    IF Vc = Vc3 THEN "maximum" ELSE IF Vc = Vc2 THEN "location" ELSE "aspect_ratio"

punching_governing_case(Vc, Vc1, Vc2, Vc3) ==
    IF Vc = Vc1 THEN "aspect_ratio" ELSE IF Vc = Vc2 THEN "location" ELSE "maximum"

punching_shear_strength_aci318(bo, d, fc_prime, beta_c, alpha_s, lambda_factor) ==
    IF QIsZero(beta_c) \/ QIsZero(bo)
    THEN Raised("ZeroDivisionError")
    ELSE LET Vc1 == punching_Vc1(bo, d, fc_prime, beta_c, lambda_factor)
             Vc2 == punching_Vc2(bo, d, fc_prime, alpha_s, lambda_factor)
             Vc3 == punching_Vc3(bo, d, fc_prime, lambda_factor)
             Vc  == Min3(Vc1, Vc2, Vc3)
         IN  [Vc_governing |-> Round(Vc, 0),
              Vc_aspect_ratio |-> Round(Vc1, 0),
              Vc_location |-> Round(Vc2, 0),
              Vc_maximum |-> Round(Vc3, 0),
              governing_case |-> punching_governing_case(Vc, Vc1, Vc2, Vc3)]

\* a slip: the offset d/2 added once to each side instead of on both faces
critical_section_punching_aci318_one_face(column_length, column_width, d) ==
    LET b1 == QAdd(column_length, QDiv(d, Q(2)))
        b2 == QAdd(column_width, QDiv(d, Q(2)))
    IN  [critical_length |-> b1,
         critical_width |-> b2,
         perimeter |-> QMul(Q(2), QAdd(b1, b2)),
         area |-> QMul(b1, b2),
         distance_from_face |-> QDiv(d, Q(2))]

critical_section_punching_aci318(column_length, column_width, d) ==
    LET b1 == QAdd(column_length, d)
        b2 == QAdd(column_width, d)
    IN  [critical_length |-> b1,
         critical_width |-> b2,
         perimeter |-> QMul(Q(2), QAdd(b1, b2)),
         area |-> QMul(b1, b2),
         distance_from_face |-> QDiv(d, Q(2))]

\* validate_material_properties of concretedesignfunc_aci318.py; a message is
\* kept by its fixed text, without the formatted value
validate_material_properties(fc_prime, fy) ==
    LET fc_errors == IF QLt(fc_prime, Q(17)) THEN <<"f'c is below minimum 17 MPa">>
                     ELSE IF QLt(Q(83), fc_prime) THEN <<"f'c exceeds maximum 83 MPa">>
                     ELSE <<>>
        fy_errors == IF QLt(fy, Q(280)) THEN <<"fy is below minimum 280 MPa">>
                     ELSE IF QLt(Q(550), fy) THEN <<"fy exceeds maximum 550 MPa">>
                     ELSE <<>>
        low_warning == IF QLt(fc_prime, Q(21))
                       THEN <<"f'c is quite low for structural concrete">>
                       ELSE <<>>
        mix_warning == IF QLt(Q(420), fy) /\ QLt(fc_prime, Q(28))
                       THEN <<"High strength steel with low strength concrete may not be economical">>
                       ELSE <<>>
    IN  [valid |-> fc_errors = <<>> /\ fy_errors = <<>>,
         errors |-> fc_errors \o fy_errors,
         warnings |-> low_warning \o mix_warning]

(***************************************************************************)
(* __init___aci318.py                                                      *)
(***************************************************************************)
MATERIAL_LIMITS ==
    [fc_prime_min |-> Q(17), fc_prime_max |-> Q(83), fy_min |-> Q(280), fy_max |-> Q(550)]

\* validate_material_properties of the package level
package_validate_material_properties(fc_prime, fy) ==
    LET fc_low == QLt(fc_prime, MATERIAL_LIMITS.fc_prime_min)
        fc_high == ~fc_low /\ QLt(MATERIAL_LIMITS.fc_prime_max, fc_prime)
        fy_low == QLt(fy, MATERIAL_LIMITS.fy_min)
        fy_high == ~fy_low /\ QLt(MATERIAL_LIMITS.fy_max, fy)
        errors == (IF fc_low THEN <<"Concrete strength is below minimum">> ELSE <<>>)
                  \o (IF fy_low THEN <<"Steel yield strength is below minimum">> ELSE <<>>)
        warnings == (IF fc_high THEN <<"Concrete strength exceeds typical range">> ELSE <<>>)
                    \o (IF fy_high THEN <<"Steel yield strength exceeds typical range">> ELSE <<>>)
    IN  [valid |-> Len(errors) = 0,
         errors |-> errors,
         warnings |-> warnings]

(***************************************************************************)
(* foundationdesign_aci318.py: class PadFoundationACI318                   *)
(***************************************************************************)
VARIABLES
    foundation, \* the PadFoundationACI318 object: its attributes by name (the
                \* load attributes without their leading underscore)
    ret         \* the last call: [op, args, out]

vars == <<foundation, ret>>

\* __init__ with the default load and strength reduction factors
PadFoundationACI318(foundation_length, foundation_width, column_length, column_width, col_pos_xdir, col_pos_ydir, soil_bearing_capacity) ==
    [foundation_length |-> foundation_length,
     foundation_width |-> foundation_width,
     column_length |-> column_length,
     column_width |-> column_width,
     col_pos_xdir |-> col_pos_xdir,
     col_pos_ydir |-> col_pos_ydir,
     soil_bearing_capacity |-> soil_bearing_capacity,
     uls_strength_factor_dead |-> R(12, 10),
     uls_strength_factor_live |-> R(16, 10),
     uls_strength_factor_wind |-> R(10, 10),
     uls_strength_factor_dead_min |-> R(9, 10),
     phi_flexure |-> R(9, 10),
     phi_shear |-> R(75, 100),
     dead_axial_load |-> Q(0),
     live_axial_load |-> Q(0),
     wind_axial_load |-> Q(0),
     dead_horizontal_load_xdir |-> Q(0),
     live_horizontal_load_xdir |-> Q(0),
     wind_horizontal_load_xdir |-> Q(0),
     dead_horizontal_load_ydir |-> Q(0),
     live_horizontal_load_ydir |-> Q(0),
     wind_horizontal_load_ydir |-> Q(0),
     dead_moment_xdir |-> Q(0),
     live_moment_xdir |-> Q(0),
     wind_moment_xdir |-> Q(0),
     dead_moment_ydir |-> Q(0),
     live_moment_ydir |-> Q(0),
     wind_moment_ydir |-> Q(0),
     foundation_self_weight |-> Q(0),
     surcharge_load |-> Q(0)]

area_of_foundation(self) == self.foundation_length * self.foundation_width

\* foundation_loads: (L * W * thickness) / 1e9 * unit weight, multiplied in an
\* order that keeps the intermediate integers small
self_weight_of(self, thickness, concrete_unit_weight) ==
    QMul(QMul(QMul(R(self.foundation_length, 1000000000), Q(self.foundation_width)),
              thickness), concrete_unit_weight)

surcharge_of(self, soil_depth_abv_foundation, soil_unit_weight) ==
    QMul(QMul(QMul(R(self.foundation_length, 1000000000), Q(self.foundation_width)),
              soil_depth_abv_foundation), soil_unit_weight)

total_force_Z_dir_service(self) ==
    QAdd(QAdd(QAdd(QAdd(self.dead_axial_load, self.live_axial_load), self.wind_axial_load),
              self.foundation_self_weight), self.surcharge_load)

Max4(a, b, c, d) == QMax(QMax(QMax(a, b), c), d)

\* a slip: the 0.9D + 1.0W combination left out of the envelope
governing_combination_no_min_dead(U1, U2, U3, U4) == QMax(QMax(U1, U2), U3)

\* a slip: the least combination taken instead of the greatest
governing_combination_min(U1, U2, U3, U4) == QMin(QMin(QMin(U1, U2), U3), U4)

\* max(U1, U2, U3, U4)
governing_combination(U1, U2, U3, U4) == Max4(U1, U2, U3, U4)

total_force_Z_dir_ultimate(self) ==
    LET foundation_dead == QAdd(self.foundation_self_weight, self.surcharge_load)
        U1 == QAdd(QMul(self.uls_strength_factor_dead, QAdd(self.dead_axial_load, foundation_dead)),
                   QMul(self.uls_strength_factor_live, self.live_axial_load))
        U2 == QAdd(QAdd(QMul(self.uls_strength_factor_dead, QAdd(self.dead_axial_load, foundation_dead)),
                        QMul(self.uls_strength_factor_live, self.live_axial_load)),
                   QMul(R(5, 10), self.wind_axial_load))
        U3 == QAdd(QAdd(QMul(self.uls_strength_factor_dead, QAdd(self.dead_axial_load, foundation_dead)),
                        QMul(self.uls_strength_factor_wind, self.wind_axial_load)),
                   QMul(R(10, 10), self.live_axial_load))
        U4 == QAdd(QMul(self.uls_strength_factor_dead_min, QAdd(self.dead_axial_load, foundation_dead)),
                   QMul(self.uls_strength_factor_wind, self.wind_axial_load))
    IN  governing_combination(U1, U2, U3, U4)

PassIf(b) == IF b THEN "PASS" ELSE "FAIL"

\* a slip: the comparison of the shear verdict turned around
shear_check_status_swapped(Vu, phi_Vc) == PassIf(QLe(phi_Vc, Vu))

\* "PASS" if Vu <= phi_Vc else "FAIL" of the three shear checks
shear_check_status(Vu, phi_Vc) == PassIf(QLe(Vu, phi_Vc))

\* a slip: utilization < 1.0 instead of <= 1.0
bearing_check_status_strict(utilization) == PassIf(QLt(utilization, Q(1)))

\* "PASS" if utilization <= 1.0 else "FAIL"
bearing_check_status(utilization) == PassIf(QLe(utilization, Q(1)))

bearing_pressure_check_service(self) ==
    LET total_load == total_force_Z_dir_service(self)
        foundation_area == R(area_of_foundation(self), 1000000)
        bearing_pressure == QDiv(total_load, foundation_area)
        utilization == QDiv(bearing_pressure, Q(self.soil_bearing_capacity))
    IN  [bearing_pressure |-> Round(bearing_pressure, 2),
         allowable_pressure |-> Q(self.soil_bearing_capacity),
         utilization_ratio |-> Round(utilization, 3),
         check_status |-> bearing_check_status(utilization)]

\* d = foundation_thickness - 75 - 16/2
shear_effective_depth(foundation_thickness) ==
    QSub(QSub(foundation_thickness, Q(75)), R(16, 2))

punching_shear_at_critical_section(self, foundation_thickness, fc_prime) ==
    LET d == shear_effective_depth(foundation_thickness)
        critical_section ==
            critical_section_punching_aci318(Q(self.column_length), Q(self.column_width), d)
        Pu == QMul(total_force_Z_dir_ultimate(self), Q(1000))
        critical_area == QDiv(critical_section.area, Q(1000000))
        foundation_area == R(area_of_foundation(self), 1000000)
        pressure == QDiv(Pu, QMul(foundation_area, Q(1000000)))
        load_inside_critical == QMul(QMul(pressure, critical_area), Q(1000000))
        Vu == QSub(Pu, load_inside_critical)
        beta_c == R(IF self.column_length >= self.column_width THEN self.column_length ELSE self.column_width,
                    IF self.column_length <= self.column_width THEN self.column_length ELSE self.column_width)
        strength_results ==
            punching_shear_strength_aci318(critical_section.perimeter, d, fc_prime,
                                           beta_c, Q(40), Q(1))
        phi_Vc == QMul(self.phi_shear, strength_results.Vc_governing)
    IN  IF IsRaised(strength_results) THEN strength_results
        ELSE IF QIsZero(phi_Vc) THEN Raised("ZeroDivisionError")
        ELSE [critical_section |-> critical_section,
              punching_force |-> Vu,
              nominal_strength |-> strength_results.Vc_governing,
              design_strength |-> phi_Vc,
              demand_capacity_ratio |-> Round(QDiv(Vu, phi_Vc), 3),
              check_status |-> shear_check_status(Vu, phi_Vc),
              governing_case |-> strength_results.governing_case]

\* a slip: the area beyond the critical section taken without the test that
\* the section is inside the foundation
one_way_shear_x_direction_unguarded(self, foundation_thickness, fc_prime) ==
    LET d == shear_effective_depth(foundation_thickness)
        x_critical == QAdd(QAdd(Q(self.col_pos_xdir), R(self.column_length, 2)), d)
        total_pressure == total_force_Z_dir_ultimate(self)
        foundation_area == R(area_of_foundation(self), 1000000)
        pressure == QDiv(total_pressure, foundation_area)
        shear_area == QDiv(QMul(QSub(Q(self.foundation_length), x_critical),
                                Q(self.foundation_width)), Q(1000000))
        Vu == QMul(QMul(pressure, shear_area), Q(1000))
        Vc == one_way_shear_strength_aci318(Q(self.foundation_width), d, fc_prime, Q(1))
        phi_Vc == QMul(self.phi_shear, Vc)
    IN  [critical_location |-> x_critical,
         shear_force |-> Vu,
         nominal_strength |-> Vc,
         design_strength |-> phi_Vc,
         demand_capacity_ratio |->
             IF QLt(Q(0), phi_Vc) THEN Round(QDiv(Vu, phi_Vc), 3) ELSE Inf,
         check_status |-> shear_check_status(Vu, phi_Vc)]

one_way_shear_x_direction(self, foundation_thickness, fc_prime) ==
    LET d == shear_effective_depth(foundation_thickness)
        x_critical == QAdd(QAdd(Q(self.col_pos_xdir), R(self.column_length, 2)), d)
        total_pressure == total_force_Z_dir_ultimate(self)
        foundation_area == R(area_of_foundation(self), 1000000)
        pressure == QDiv(total_pressure, foundation_area)
        shear_area == QDiv(QMul(QSub(Q(self.foundation_length), x_critical),
                                Q(self.foundation_width)), Q(1000000))
        Vu == IF QLt(x_critical, Q(self.foundation_length))
              THEN QMul(QMul(pressure, shear_area), Q(1000))
              ELSE Q(0)
        Vc == one_way_shear_strength_aci318(Q(self.foundation_width), d, fc_prime, Q(1))
        phi_Vc == QMul(self.phi_shear, Vc)
    IN  [critical_location |-> x_critical,
         shear_force |-> Vu,
         nominal_strength |-> Vc,
         design_strength |-> phi_Vc,
         demand_capacity_ratio |->
             IF QLt(Q(0), phi_Vc) THEN Round(QDiv(Vu, phi_Vc), 3) ELSE Inf,
         check_status |-> shear_check_status(Vu, phi_Vc)]

one_way_shear_y_direction(self, foundation_thickness, fc_prime) ==
    LET d == shear_effective_depth(foundation_thickness)
        y_critical == QAdd(QAdd(Q(self.col_pos_ydir), R(self.column_width, 2)), d)
        total_pressure == total_force_Z_dir_ultimate(self)
        foundation_area == R(area_of_foundation(self), 1000000)
        pressure == QDiv(total_pressure, foundation_area)
        shear_area == QDiv(QMul(QSub(Q(self.foundation_width), y_critical),
                                Q(self.foundation_length)), Q(1000000))
        Vu == IF QLt(y_critical, Q(self.foundation_width))
              THEN QMul(QMul(pressure, shear_area), Q(1000))
              ELSE Q(0)
        Vc == one_way_shear_strength_aci318(Q(self.foundation_length), d, fc_prime, Q(1))
        phi_Vc == QMul(self.phi_shear, Vc)
    IN  [critical_location |-> y_critical,
         shear_force |-> Vu,
         nominal_strength |-> Vc,
         design_strength |-> phi_Vc,
         demand_capacity_ratio |->
             IF QLt(Q(0), phi_Vc) THEN Round(QDiv(Vu, phi_Vc), 3) ELSE Inf,
         check_status |-> shear_check_status(Vu, phi_Vc)]

(***************************************************************************)
(* foundationdesign_aci318.py: padFoundationDesignACI318                   *)
(***************************************************************************)
\* dict.get(key, default)
DictGet(dict, key, default) == IF key \in DOMAIN dict THEN dict[key] ELSE default

design_d_x(foundation_thickness, steel_cover, bar_dia_x) ==
    QSub(QSub(foundation_thickness, steel_cover), QDiv(bar_dia_x, Q(2)))

design_d_y(foundation_thickness, steel_cover, bar_dia_x, bar_dia_y) ==
    QSub(QSub(QSub(foundation_thickness, steel_cover), bar_dia_y), QDiv(bar_dia_x, Q(2)))

\* Mu_x = Mu_y = 100 * 1e6 N.mm
design_Mu == QMul(Q(100), Q(1000000))

design_foundation_adequate(bearing_check, punching_check, one_way_x, one_way_y) ==
    /\ bearing_check.check_status = "PASS"
    /\ punching_check.check_status = "PASS"
    /\ one_way_x.check_status = "PASS"
    /\ one_way_y.check_status = "PASS"

\* the body of padFoundationDesignACI318 after its call of foundation_loads
design_report(fdn_analysis, concrete_grade, steel_grade, foundation_thickness, steel_cover, bar_dia_x, bar_dia_y) ==
    LET d_x == design_d_x(foundation_thickness, steel_cover, bar_dia_x)
        d_y == design_d_y(foundation_thickness, steel_cover, bar_dia_x, bar_dia_y)
        flexural_design_x == flexural_design_aci318(design_Mu, Q(fdn_analysis.foundation_width), d_x,
                                            concrete_grade, steel_grade, R(9, 10))
        flexural_design_y == flexural_design_aci318(design_Mu, Q(fdn_analysis.foundation_length), d_y,
                                            concrete_grade, steel_grade, R(9, 10))
        minimum_As_x == minimum_flexural_reinforcement_aci318(
                        Q(fdn_analysis.foundation_width), d_x, concrete_grade, steel_grade)
        minimum_As_y == minimum_flexural_reinforcement_aci318(
                        Q(fdn_analysis.foundation_length), d_y, concrete_grade, steel_grade)
        punching_shear ==
            punching_shear_at_critical_section(fdn_analysis, foundation_thickness, concrete_grade)
        one_way_shear_x == one_way_shear_x_direction(fdn_analysis, foundation_thickness, concrete_grade)
        one_way_shear_y == one_way_shear_y_direction(fdn_analysis, foundation_thickness, concrete_grade)
        bearing_pressure == bearing_pressure_check_service(fdn_analysis)
        \* the statements after the calls, on the values the calls returned
        report(flexure_x, flexure_y, As_min_x, As_min_y, punching_check,
               one_way_x, one_way_y, bearing_check) ==
        IF IsRaised(flexure_x) THEN flexure_x
        ELSE IF IsRaised(flexure_y) THEN flexure_y
        ELSE IF IsRaised(punching_check) THEN punching_check
        ELSE [foundation_geometry |->
                  [length |-> fdn_analysis.foundation_length,
                   width |-> fdn_analysis.foundation_width,
                   thickness |-> foundation_thickness,
                   area |-> area_of_foundation(fdn_analysis)],
              material_properties |->
                  [fc_prime |-> concrete_grade,
                   fy |-> steel_grade,
                   cover |-> steel_cover],
              loads |->
                  [service_load |-> total_force_Z_dir_service(fdn_analysis),
                   ultimate_load |-> total_force_Z_dir_ultimate(fdn_analysis)],
              bearing_pressure |-> bearing_check,
              flexural_design |->
                  [x_direction |->
                       [required_As |-> DictGet(flexure_x, "area_of_steel", As_min_x),
                        minimum_As |-> As_min_x,
                        status |-> DictGet(flexure_x, "status", "OK")],
                   y_direction |->
                       [required_As |-> DictGet(flexure_y, "area_of_steel", As_min_y),
                        minimum_As |-> As_min_y,
                        status |-> DictGet(flexure_y, "status", "OK")]],
              shear_design |->
                  [punching_shear |-> punching_check,
                   one_way_x |-> one_way_x,
                   one_way_y |-> one_way_y],
              design_code |-> "ACI 318M-25",
              design_summary |->
                  [foundation_adequate |->
                       design_foundation_adequate(bearing_check, punching_check,
                                                  one_way_x, one_way_y)]]
    \* each call is made once and its result bound to a name
    IN  CHOOSE result \in
            {report(flexure_x, flexure_y, As_min_x, As_min_y, punching_check,
                    one_way_x, one_way_y, bearing_check) :
                flexure_x \in {flexural_design_x}, flexure_y \in {flexural_design_y},
                As_min_x \in {minimum_As_x}, As_min_y \in {minimum_As_y},
                punching_check \in {punching_shear},
                one_way_x \in {one_way_shear_x}, one_way_y \in {one_way_shear_y},
                bearing_check \in {bearing_pressure}} : TRUE

(***************************************************************************)
(* Inputs                                                                  *)
(***************************************************************************)
\* constructor arguments: the worked example of test_aci318_basic.py; a
\* rectangular foundation with an off-centre 2:1 column, flush with the far x
\* edge and nearer to the near y edge; a column that overhangs the far x
\* edge; and a foundation of length 0
Geometries ==
    { [foundation_length |-> 2500, foundation_width |-> 2500,
       column_length |-> 400, column_width |-> 400,
       col_pos_xdir |-> 1250, col_pos_ydir |-> 1250,
       soil_bearing_capacity |-> 200],
      [foundation_length |-> 2500, foundation_width |-> 2000,
       column_length |-> 400, column_width |-> 200,
       col_pos_xdir |-> 2300, col_pos_ydir |-> 800,
       soil_bearing_capacity |-> 150],
      [foundation_length |-> 2500, foundation_width |-> 2500,
       column_length |-> 400, column_width |-> 400,
       col_pos_xdir |-> 2400, col_pos_ydir |-> 1250,
       soil_bearing_capacity |-> 200],
      [foundation_length |-> 0, foundation_width |-> 2500,
       column_length |-> 400, column_width |-> 400,
       col_pos_xdir |-> 1250, col_pos_ydir |-> 1250,
       soil_bearing_capacity |-> 200] }

\* a load given as text
NotANumber == [text |-> "800"]

\* column_axial_loads(dead, live, wind): no load, the worked example, the
\* load that brings the example's bearing pressure to the capacity, uplift by
\* live load alone and with wind, downward wind, and a dead load that is not
\* a number
AxialLoadArguments ==
    { <<Q(0), Q(0), Q(0)>>,
      <<Q(800), Q(300), Q(0)>>,
      <<Q(800), Q(450), Q(0)>>,
      <<Q(0), Q(-100), Q(0)>>,
      <<Q(0), Q(-100), Q(-200)>>,
      <<Q(0), Q(300), Q(200)>>,
      <<NotANumber, Q(300), Q(0)>> }

\* thicknesses 83, 133, ... mm give the shear depths d = 0, 50, ... mm
MaxThicknessStep == 2

Thicknesses == {Q(83 + 50 * k) : k \in 0..MaxThicknessStep}

LoadThicknesses == {Q(-400), Q(400)}

SoilDepths == {Q(700)}

SoilUnitWeights == {Q(18)}

ConcreteUnitWeights == {Q(24)}

ConcreteGrades == {Q(25)}

SteelGrades == {Q(420)}

SteelCovers == {Q(75)}

BarDiameters == {Q(16)}

(***************************************************************************)
(* The object's life: construction, then any sequence of calls             *)
(***************************************************************************)
\* datavalidation.assert_strictly_positive_number on a geometry value
assert_strictly_positive_number(value) == value > 0

\* the input validation of __init__
init_validation(g) ==
    /\ assert_strictly_positive_number(g.foundation_length)
    /\ assert_strictly_positive_number(g.foundation_width)
    /\ assert_strictly_positive_number(g.column_length)
    /\ assert_strictly_positive_number(g.column_width)
    /\ assert_strictly_positive_number(g.soil_bearing_capacity)

\* what the caller holds when __init__ raised
NoObject == [constructed |-> FALSE]

\* PadFoundationACI318(...) called with the arguments g
Construct(g) ==
    IF init_validation(g)
    THEN /\ foundation = PadFoundationACI318(g.foundation_length, g.foundation_width,
                                              g.column_length, g.column_width,
                                              g.col_pos_xdir, g.col_pos_ydir,
                                              g.soil_bearing_capacity)
         /\ ret = [op |-> "__init__", args |-> <<g>>, out |-> None]
    ELSE /\ foundation = NoObject
         /\ ret = [op |-> "__init__", args |-> <<g>>,
                   out |-> Raised("ValidationError")]

Init == \E g \in Geometries : Construct(g)

\* a slip: the surcharge taken over the foundation thickness
foundation_loads_surcharge_over_thickness(self, foundation_thickness, soil_depth_abv_foundation, soil_unit_weight, concrete_unit_weight) ==
    [self EXCEPT
        !.foundation_self_weight =
            self_weight_of(self, foundation_thickness, concrete_unit_weight),
        !.surcharge_load =
            surcharge_of(self, foundation_thickness, soil_unit_weight)]

\* the object after self.foundation_loads(...)
foundation_loads(self, foundation_thickness, soil_depth_abv_foundation, soil_unit_weight, concrete_unit_weight) ==
    [self EXCEPT
        !.foundation_self_weight =
            self_weight_of(self, foundation_thickness, concrete_unit_weight),
        !.surcharge_load =
            surcharge_of(self, soil_depth_abv_foundation, soil_unit_weight)]

\* datavalidation.assert_number: a number of either sign passes, anything
\* else raises
IsNumber(value) == DOMAIN value = {"n", "d"}

assert_number(value) == IsNumber(value)

\* a slip: "if value:" before each assignment, so that a 0 leaves the old value
column_axial_loads_keeping_on_zero(self, dead_axial_load, live_axial_load, wind_axial_load) ==
    [self EXCEPT
        !.dead_axial_load = IF QIsZero(dead_axial_load) THEN @ ELSE dead_axial_load,
        !.live_axial_load = IF QIsZero(live_axial_load) THEN @ ELSE live_axial_load,
        !.wind_axial_load = IF QIsZero(wind_axial_load) THEN @ ELSE wind_axial_load]

\* the object after self.column_axial_loads(...)
column_axial_loads(self, dead_axial_load, live_axial_load, wind_axial_load) ==
    [self EXCEPT !.dead_axial_load = dead_axial_load,
                 !.live_axial_load = live_axial_load,
                 !.wind_axial_load = wind_axial_load]

\* the object after self.column_horizontal_loads_xdir(...)
column_horizontal_loads_xdir(self, dead_horizontal_load_xdir, live_horizontal_load_xdir, wind_horizontal_load_xdir) ==
    [self EXCEPT !.dead_horizontal_load_xdir = dead_horizontal_load_xdir,
                 !.live_horizontal_load_xdir = live_horizontal_load_xdir,
                 !.wind_horizontal_load_xdir = wind_horizontal_load_xdir]

\* the object after self.column_horizontal_loads_ydir(...)
column_horizontal_loads_ydir(self, dead_horizontal_load_ydir, live_horizontal_load_ydir, wind_horizontal_load_ydir) ==
    [self EXCEPT !.dead_horizontal_load_ydir = dead_horizontal_load_ydir,
                 !.live_horizontal_load_ydir = live_horizontal_load_ydir,
                 !.wind_horizontal_load_ydir = wind_horizontal_load_ydir]

\* the object after self.column_moments_xdir(...)
column_moments_xdir(self, dead_moment_xdir, live_moment_xdir, wind_moment_xdir) ==
    [self EXCEPT !.dead_moment_xdir = dead_moment_xdir,
                 !.live_moment_xdir = live_moment_xdir,
                 !.wind_moment_xdir = wind_moment_xdir]

\* the object after self.column_moments_ydir(...)
column_moments_ydir(self, dead_moment_ydir, live_moment_ydir, wind_moment_ydir) ==
    [self EXCEPT !.dead_moment_ydir = dead_moment_ydir,
                 !.live_moment_ydir = live_moment_ydir,
                 !.wind_moment_ydir = wind_moment_ydir]

Call_foundation_loads ==
    \E t \in LoadThicknesses, h \in SoilDepths,
       gs \in SoilUnitWeights, gc \in ConcreteUnitWeights :
        /\ foundation' = foundation_loads(foundation, t, h, gs, gc)
        /\ ret' = [op |-> "foundation_loads", args |-> <<t, h, gs, gc>>, out |-> None]

Call_column_axial_loads ==
    \E args \in AxialLoadArguments :
        IF assert_number(args[1]) /\ assert_number(args[2]) /\ assert_number(args[3])
        THEN /\ foundation' = column_axial_loads(foundation, args[1], args[2], args[3])
             /\ ret' = [op |-> "column_axial_loads", args |-> args, out |-> None]
        ELSE /\ UNCHANGED foundation
             /\ ret' = [op |-> "column_axial_loads", args |-> args,
                        out |-> Raised("ValidationError")]

Call_total_force_Z_dir_service ==
    /\ ret' = [op |-> "total_force_Z_dir_service", args |-> <<>>,
               out |-> total_force_Z_dir_service(foundation)]
    /\ UNCHANGED foundation

Call_total_force_Z_dir_ultimate ==
    /\ ret' = [op |-> "total_force_Z_dir_ultimate", args |-> <<>>,
               out |-> total_force_Z_dir_ultimate(foundation)]
    /\ UNCHANGED foundation

\* a slip: the check made on the object after dropping its wind load, the
\* attribute overwritten instead of a local value
Call_bearing_pressure_check_service_dropping_wind ==
    /\ foundation' = [foundation EXCEPT !.wind_axial_load = Q(0)]
    /\ ret' = [op |-> "bearing_pressure_check_service", args |-> <<>>,
               out |-> bearing_pressure_check_service(
                           [foundation EXCEPT !.wind_axial_load = Q(0)])]

Call_bearing_pressure_check_service ==
    /\ ret' = [op |-> "bearing_pressure_check_service", args |-> <<>>,
               out |-> bearing_pressure_check_service(foundation)]
    /\ UNCHANGED foundation

Call_punching_shear_at_critical_section ==
    \E t \in Thicknesses, fc \in ConcreteGrades :
        /\ ret' = [op |-> "punching_shear_at_critical_section", args |-> <<t, fc>>,
                   out |-> punching_shear_at_critical_section(foundation, t, fc)]
        /\ UNCHANGED foundation

Call_one_way_shear_x_direction ==
    \E t \in Thicknesses, fc \in ConcreteGrades :
        /\ ret' = [op |-> "one_way_shear_x_direction", args |-> <<t, fc>>,
                   out |-> one_way_shear_x_direction(foundation, t, fc)]
        /\ UNCHANGED foundation

Call_one_way_shear_y_direction ==
    \E t \in Thicknesses, fc \in ConcreteGrades :
        /\ ret' = [op |-> "one_way_shear_y_direction", args |-> <<t, fc>>,
                   out |-> one_way_shear_y_direction(foundation, t, fc)]
        /\ UNCHANGED foundation

\* padFoundationDesignACI318: foundation_loads(foundation_thickness,
\* soil_depth_abv_foundation) with the default unit weights 18 and 24 on the
\* caller's object, then the checks on the updated object
padFoundationDesignACI318(concrete_grade, steel_grade, foundation_thickness, soil_depth_abv_foundation, steel_cover, bar_dia_x, bar_dia_y) ==
    LET fdn_analysis == foundation_loads(foundation, foundation_thickness,
                                         soil_depth_abv_foundation, Q(18), Q(24))
    IN  /\ foundation' = fdn_analysis
        /\ ret' = [op |-> "padFoundationDesignACI318",
                   args |-> <<concrete_grade, steel_grade, foundation_thickness,
                              soil_depth_abv_foundation, steel_cover, bar_dia_x, bar_dia_y>>,
                   out |-> design_report(fdn_analysis, concrete_grade, steel_grade,
                                         foundation_thickness, steel_cover,
                                         bar_dia_x, bar_dia_y)]

Call_padFoundationDesignACI318 ==
    \E fc \in ConcreteGrades, fy \in SteelGrades, t \in Thicknesses,
       h \in SoilDepths, cover \in SteelCovers,
       bx \in BarDiameters, by \in BarDiameters :
        padFoundationDesignACI318(fc, fy, t, h, cover, bx, by)

\* no call can be made on an object that was not constructed
Next ==
    /\ foundation # NoObject
    /\ \/ Call_foundation_loads
       \/ Call_column_axial_loads
       \/ Call_total_force_Z_dir_service
       \/ Call_total_force_Z_dir_ultimate
       \/ Call_bearing_pressure_check_service
       \/ Call_punching_shear_at_critical_section
       \/ Call_one_way_shear_x_direction
       \/ Call_one_way_shear_y_direction
       \/ Call_padFoundationDesignACI318

Spec == Init /\ [][Next]_vars

(***************************************************************************)
(* The section-capacity functions called on their own                      *)
(***************************************************************************)
\* whitney_stress_block_factor: f'c = 0, 0.5, 1, ... MPa
MaxFcHalf == 180

WhitneyGrades == {R(k, 2) : k \in 0..MaxFcHalf}

\* flexural_design_aci318: 95625000 N.mm is the moment of a zero discriminant
\* for b = 1000, d = 100, f'c = 25
FlexMoments == {Q(0), Q(50000000), Q(95625000), Q(100000000)}

FlexWidths == {Q(1000), Q(2500)}

FlexDepths == {Q(0), Q(50), Q(84), Q(100), Q(325)}

FlexGrades == {Q(25), Q(30)}

FlexSteelGrades == {Q(280), Q(420)}

\* punching_shear_strength_aci318
PunchPerimeters == {Q(1000), Q(2000), Q(4000)}

PunchDepths == {Q(0), Q(50), Q(100), Q(200)}

PunchGrades == {Q(25), Q(30)}

PunchAspects == {Q(1), Q(2), Q(4)}

PunchLocations == {Q(40), Q(30), Q(20)}

\* minimum_flexural_reinforcement_aci318
MinSteelWidths == {Q(500), Q(1000), Q(2000)}

MinSteelDepths == {Q(50), Q(100), Q(300)}

MinSteelGrades == {Q(25), Q(64)}

MinSteelYields == {Q(280), Q(420), Q(560)}

\* validate_material_properties: values at, inside and outside each limit
ValidateGrades == {Q(16), Q(17), Q(20), Q(25), Q(83), Q(84)}

ValidateYields == {Q(279), Q(280), Q(420), Q(500), Q(550), Q(551)}

\* a call that has not returned yet
Pending == [pending |-> TRUE]

CapacityCalls ==
    {[op |-> "whitney_stress_block_factor", args |-> <<fc>>, out |-> Pending] :
        fc \in WhitneyGrades}
    \cup
    {[op |-> "flexural_design_aci318", args |-> <<Mu, b, d, fc, fy>>, out |-> Pending] :
        Mu \in FlexMoments, b \in FlexWidths, d \in FlexDepths,
        fc \in FlexGrades, fy \in FlexSteelGrades}
    \cup
    {[op |-> "punching_shear_strength_aci318",
      args |-> <<bo, d, fc, beta_c, alpha_s>>, out |-> Pending] :
        bo \in PunchPerimeters, d \in PunchDepths, fc \in PunchGrades,
        beta_c \in PunchAspects, alpha_s \in PunchLocations}
    \cup
    {[op |-> "minimum_flexural_reinforcement_aci318", args |-> <<b, d, fc, fy>>,
      out |-> Pending] :
        b \in MinSteelWidths, d \in MinSteelDepths, fc \in MinSteelGrades,
        fy \in MinSteelYields}
    \cup
    {[op |-> module, args |-> <<fc, fy>>, out |-> Pending] :
        module \in {"concretedesignfunc_aci318.validate_material_properties",
                    "FoundationDesign.validate_material_properties"},
        fc \in ValidateGrades, fy \in ValidateYields}

\* one call of one function with arguments drawn from the sets above
InitCap ==
    /\ foundation = PadFoundationACI318(2500, 2500, 400, 400, 1250, 1250, 200)
    /\ ret \in CapacityCalls

Call_whitney_stress_block_factor ==
    /\ ret.op = "whitney_stress_block_factor"
    /\ ret.out = Pending
    /\ ret' = [ret EXCEPT !.out = whitney_stress_block_factor(ret.args[1])]
    /\ UNCHANGED foundation

\* phi is left at its default 0.9
Call_flexural_design_aci318 ==
    /\ ret.op = "flexural_design_aci318"
    /\ ret.out = Pending
    /\ ret' = [ret EXCEPT !.out =
                   flexural_design_aci318(ret.args[1], ret.args[2], ret.args[3],
                                          ret.args[4], ret.args[5], R(9, 10))]
    /\ UNCHANGED foundation

\* lambda_factor is left at its default 1.0
Call_punching_shear_strength_aci318 ==
    /\ ret.op = "punching_shear_strength_aci318"
    /\ ret.out = Pending
    /\ ret' = [ret EXCEPT !.out =
                   punching_shear_strength_aci318(ret.args[1], ret.args[2], ret.args[3],
                                                  ret.args[4], ret.args[5], Q(1))]
    /\ UNCHANGED foundation

Call_minimum_flexural_reinforcement_aci318 ==
    /\ ret.op = "minimum_flexural_reinforcement_aci318"
    /\ ret.out = Pending
    /\ ret' = [ret EXCEPT !.out =
                   minimum_flexural_reinforcement_aci318(ret.args[1], ret.args[2],
                                                         ret.args[3], ret.args[4])]
    /\ UNCHANGED foundation

Call_validate_material_properties ==
    /\ ret.op = "concretedesignfunc_aci318.validate_material_properties"
    /\ ret.out = Pending
    /\ ret' = [ret EXCEPT !.out = validate_material_properties(ret.args[1], ret.args[2])]
    /\ UNCHANGED foundation

Call_package_validate_material_properties ==
    /\ ret.op = "FoundationDesign.validate_material_properties"
    /\ ret.out = Pending
    /\ ret' = [ret EXCEPT !.out =
                   package_validate_material_properties(ret.args[1], ret.args[2])]
    /\ UNCHANGED foundation

NextCap ==
    \/ Call_whitney_stress_block_factor
    \/ Call_flexural_design_aci318
    \/ Call_punching_shear_strength_aci318
    \/ Call_minimum_flexural_reinforcement_aci318
    \/ Call_validate_material_properties
    \/ Call_package_validate_material_properties

SpecCap == InitCap /\ [][NextCap]_vars

(***************************************************************************)
(* The five load setters called in any order on the worked example         *)
(***************************************************************************)
\* (dead, live, wind) of a setter call: two accepted triples, one of them
\* with the omitted arguments' default 0, and a value that is not a number in
\* each of the three positions
SetterArguments ==
    { <<Q(50), Q(20), Q(10)>>,
      <<Q(-30), Q(0), Q(0)>>,
      <<NotANumber, Q(20), Q(10)>>,
      <<Q(50), NotANumber, Q(10)>>,
      <<Q(50), Q(20), NotANumber>> }

SetterValidation(args) ==
    assert_number(args[1]) /\ assert_number(args[2]) /\ assert_number(args[3])

InitSetters == Construct([foundation_length |-> 2500, foundation_width |-> 2500,
                          column_length |-> 400, column_width |-> 400,
                          col_pos_xdir |-> 1250, col_pos_ydir |-> 1250,
                          soil_bearing_capacity |-> 200])

Set_column_axial_loads ==
    \E args \in SetterArguments :
        IF SetterValidation(args)
        THEN /\ foundation' = column_axial_loads(foundation, args[1], args[2], args[3])
             /\ ret' = [op |-> "column_axial_loads", args |-> args, out |-> None]
        ELSE /\ UNCHANGED foundation
             /\ ret' = [op |-> "column_axial_loads", args |-> args,
                        out |-> Raised("ValidationError")]

Set_column_horizontal_loads_xdir ==
    \E args \in SetterArguments :
        IF SetterValidation(args)
        THEN /\ foundation' = column_horizontal_loads_xdir(foundation, args[1], args[2], args[3])
             /\ ret' = [op |-> "column_horizontal_loads_xdir", args |-> args, out |-> None]
        ELSE /\ UNCHANGED foundation
             /\ ret' = [op |-> "column_horizontal_loads_xdir", args |-> args,
                        out |-> Raised("ValidationError")]

Set_column_horizontal_loads_ydir ==
    \E args \in SetterArguments :
        IF SetterValidation(args)
        THEN /\ foundation' = column_horizontal_loads_ydir(foundation, args[1], args[2], args[3])
             /\ ret' = [op |-> "column_horizontal_loads_ydir", args |-> args, out |-> None]
        ELSE /\ UNCHANGED foundation
             /\ ret' = [op |-> "column_horizontal_loads_ydir", args |-> args,
                        out |-> Raised("ValidationError")]

\* a slip: each argument assigned as soon as it is validated, so that a
\* failure of a later argument leaves the earlier ones stored
Set_column_moments_xdir_assigning_as_validated ==
    \E args \in SetterArguments :
        LET after1 == [foundation EXCEPT !.dead_moment_xdir = args[1]]
            after2 == [after1 EXCEPT !.live_moment_xdir = args[2]]
            after3 == [after2 EXCEPT !.wind_moment_xdir = args[3]]
        IN  /\ foundation' = IF ~assert_number(args[1]) THEN foundation
                             ELSE IF ~assert_number(args[2]) THEN after1
                             ELSE IF ~assert_number(args[3]) THEN after2
                             ELSE after3
            /\ ret' = [op |-> "column_moments_xdir", args |-> args,
                       out |-> IF SetterValidation(args) THEN None
                               ELSE Raised("ValidationError")]

Set_column_moments_xdir ==
    \E args \in SetterArguments :
        IF SetterValidation(args)
        THEN /\ foundation' = column_moments_xdir(foundation, args[1], args[2], args[3])
             /\ ret' = [op |-> "column_moments_xdir", args |-> args, out |-> None]
        ELSE /\ UNCHANGED foundation
             /\ ret' = [op |-> "column_moments_xdir", args |-> args,
                        out |-> Raised("ValidationError")]

Set_column_moments_ydir ==
    \E args \in SetterArguments :
        IF SetterValidation(args)
        THEN /\ foundation' = column_moments_ydir(foundation, args[1], args[2], args[3])
             /\ ret' = [op |-> "column_moments_ydir", args |-> args, out |-> None]
        ELSE /\ UNCHANGED foundation
             /\ ret' = [op |-> "column_moments_ydir", args |-> args,
                        out |-> Raised("ValidationError")]

NextSetters ==
    \/ Set_column_axial_loads
    \/ Set_column_horizontal_loads_xdir
    \/ Set_column_horizontal_loads_ydir
    \/ Set_column_moments_xdir
    \/ Set_column_moments_ydir

SpecSetters == InitSetters /\ [][NextSetters]_vars

(***************************************************************************)
(* The design procedure called with its own cover, bar diameters and       *)
(* thickness on objects loaded with other unit weights                     *)
(***************************************************************************)
\* the worked example and a footing only 100 mm wider than its column
DesignGeometries ==
    { [foundation_length |-> 2500, foundation_width |-> 2500,
       column_length |-> 400, column_width |-> 400,
       col_pos_xdir |-> 1250, col_pos_ydir |-> 1250,
       soil_bearing_capacity |-> 200],
      [foundation_length |-> 500, foundation_width |-> 500,
       column_length |-> 400, column_width |-> 400,
       col_pos_xdir |-> 250, col_pos_ydir |-> 250,
       soil_bearing_capacity |-> 200] }

\* the worked example's loads, and 1250.5 kN, which is 0.04 % above the
\* example's bearing capacity of 1250 kN
DesignAxialLoads == {<<Q(800), Q(300), Q(0)>>, <<R(12505, 10), Q(0), Q(0)>>}

\* (soil_unit_weight, concrete_unit_weight): the defaults and other values
DesignUnitWeights == {<<Q(18), Q(24)>>, <<Q(20), Q(25)>>}

\* 133 - 75 - 16/2 = 50 and 383 - 75 - 16/2 = 300
DesignThicknesses == {Q(133), Q(383)}

DesignCovers == {Q(50), Q(75)}

DesignBarDiameters == {Q(16), Q(20)}

InitDesign == \E g \in DesignGeometries : Construct(g)

Design_column_axial_loads ==
    \E args \in DesignAxialLoads :
        IF SetterValidation(args)
        THEN /\ foundation' = column_axial_loads(foundation, args[1], args[2], args[3])
             /\ ret' = [op |-> "column_axial_loads", args |-> args, out |-> None]
        ELSE /\ UNCHANGED foundation
             /\ ret' = [op |-> "column_axial_loads", args |-> args,
                        out |-> Raised("ValidationError")]

Design_foundation_loads ==
    \E t \in DesignThicknesses, h \in SoilDepths, g \in DesignUnitWeights :
        /\ foundation' = foundation_loads(foundation, t, h, g[1], g[2])
        /\ ret' = [op |-> "foundation_loads", args |-> <<t, h, g[1], g[2]>>, out |-> None]

Design_punching_shear_at_critical_section ==
    \E t \in DesignThicknesses, fc \in ConcreteGrades :
        /\ ret' = [op |-> "punching_shear_at_critical_section", args |-> <<t, fc>>,
                   out |-> punching_shear_at_critical_section(foundation, t, fc)]
        /\ UNCHANGED foundation

Design_padFoundationDesignACI318 ==
    \E fc \in ConcreteGrades, fy \in SteelGrades, t \in DesignThicknesses,
       h \in SoilDepths, cover \in DesignCovers,
       bx \in DesignBarDiameters, by \in DesignBarDiameters :
        padFoundationDesignACI318(fc, fy, t, h, cover, bx, by)

NextDesign ==
    \/ Design_column_axial_loads
    \/ Design_foundation_loads
    \/ Call_bearing_pressure_check_service
    \/ Design_punching_shear_at_critical_section
    \/ Design_padFoundationDesignACI318

SpecDesign == InitDesign /\ [][NextDesign]_vars

(***************************************************************************)
(* Properties of the foundation object (Spec)                              *)
(***************************************************************************)
DefaultFactors(self) ==
    /\ self.uls_strength_factor_dead = R(12, 10)
    /\ self.uls_strength_factor_live = R(16, 10)
    /\ self.uls_strength_factor_wind = R(10, 10)
    /\ self.uls_strength_factor_dead_min = R(9, 10)

\* D = dead axial load + self-weight + surcharge
TotalDead(self) ==
    QAdd(self.dead_axial_load, QAdd(self.foundation_self_weight, self.surcharge_load))

\* a x D + b x L + c x W with decimal factors a/10, b/10, c/10
Combination(self, a, b, c) ==
    QAdd(QAdd(QMul(R(a, 10), TotalDead(self)), QMul(R(b, 10), self.live_axial_load)),
         QMul(R(c, 10), self.wind_axial_load))

IsExample(self) ==
    /\ self.foundation_length = 2500 /\ self.foundation_width = 2500
    /\ self.column_length = 400 /\ self.column_width = 400
    /\ self.soil_bearing_capacity = 200

ShearChecks ==
    {"punching_shear_at_critical_section", "one_way_shear_x_direction",
     "one_way_shear_y_direction"}

Passes(status) == status \in {"PASS", "OK"}

\* C1: in a report returned by padFoundationDesignACI318 the flag
\* design_summary.foundation_adequate is true if and only if the bearing check,
\* the flexural check in x and in y, the one-way shear check in x and in y and
\* the punching shear check all pass.
C1_AdequateIffEveryVerdictPasses ==
    (ret.op = "padFoundationDesignACI318" /\ ~IsRaised(ret.out)) =>
        (ret.out.design_summary.foundation_adequate <=>
            /\ Passes(ret.out.bearing_pressure.check_status)
            /\ Passes(ret.out.flexural_design.x_direction.status)
            /\ Passes(ret.out.flexural_design.y_direction.status)
            /\ Passes(ret.out.shear_design.one_way_x.check_status)
            /\ Passes(ret.out.shear_design.one_way_y.check_status)
            /\ Passes(ret.out.shear_design.punching_shear.check_status))

\* C2: with default factors total_force_Z_dir_ultimate returns one of
\* 1.2D+1.6L, 1.2D+1.6L+0.5W, 1.2D+1.0W+1.0L and 0.9D+1.0W and is not smaller
\* than any of the four.
C2_UltimateIsEnvelopeMaximum ==
    (ret.op = "total_force_Z_dir_ultimate" /\ DefaultFactors(foundation)) =>
        LET envelope == {Combination(foundation, 12, 16, 0),
                         Combination(foundation, 12, 16, 5),
                         Combination(foundation, 12, 10, 10),
                         Combination(foundation, 9, 0, 10)}
        IN  /\ ret.out \in envelope
            /\ \A U \in envelope : QLe(U, ret.out)

\* 0.9D + 1.0W governs alone and is what was returned
C2_MinimumDeadGoverns ==
    /\ ret.op = "total_force_Z_dir_ultimate"
    /\ ret.out = Combination(foundation, 9, 0, 10)
    /\ QLt(Combination(foundation, 12, 16, 0), ret.out)
    /\ QLt(Combination(foundation, 12, 16, 5), ret.out)
    /\ QLt(Combination(foundation, 12, 10, 10), ret.out)

\* C3 as stated: with default factors and no wind total_force_Z_dir_ultimate
\* is 1.2D + 1.6L for every dead and live load that column_axial_loads
\* accepts.
C3_NoWindIsDeadPlusLive ==
    (/\ ret.op = "total_force_Z_dir_ultimate"
     /\ DefaultFactors(foundation)
     /\ foundation.wind_axial_load = Q(0)) =>
        ret.out = Combination(foundation, 12, 16, 0)

\* C3: with default factors and no wind total_force_Z_dir_ultimate is
\* 1.2D + 1.6L when L >= 0 and 0.3D + 1.6L >= 0; for a negative live load it
\* is the larger of 1.2D + 1.0L and 0.9D, which exceeds 1.2D + 1.6L.
C3_NoWindIsDeadPlusLiveUnlessUplift ==
    (/\ ret.op = "total_force_Z_dir_ultimate"
     /\ DefaultFactors(foundation)
     /\ foundation.wind_axial_load = Q(0)) =>
        /\ (/\ QLe(Q(0), foundation.live_axial_load)
            /\ QLe(Q(0), Combination(foundation, 3, 16, 0)))
           => ret.out = Combination(foundation, 12, 16, 0)
        /\ QLt(foundation.live_axial_load, Q(0))
           => /\ ret.out = QMax(Combination(foundation, 12, 10, 0),
                                Combination(foundation, 9, 0, 0))
              /\ QLt(Combination(foundation, 12, 16, 0), ret.out)

\* no wind, positive dead and live load, 1.2D + 1.6L returned
C3_DeadPlusLiveGoverns ==
    /\ ret.op = "total_force_Z_dir_ultimate"
    /\ foundation.wind_axial_load = Q(0)
    /\ QLt(Q(0), foundation.dead_axial_load)
    /\ QLt(Q(0), foundation.live_axial_load)
    /\ QLt(Q(0), foundation.foundation_self_weight)
    /\ ret.out = Combination(foundation, 12, 16, 0)

\* the worked example after column_axial_loads(800, 300) and
\* foundation_loads(400, 700, 18, 24)
ExampleLoaded ==
    /\ IsExample(foundation)
    /\ foundation.dead_axial_load = Q(800)
    /\ foundation.live_axial_load = Q(300)
    /\ foundation.wind_axial_load = Q(0)
    /\ foundation.foundation_self_weight = Q(60)
    /\ foundation.surcharge_load = R(7875, 100)

\* C4: on the 2500 x 2500 foundation of capacity 200, foundation_loads(400,
\* 700, 18, 24) leaves self-weight 60 and surcharge 78.75; with column loads
\* 800 and 300 the service resultant is 1238.75, the ultimate resultant is
\* 1606.5 and the bearing check reports 198.2, 0.991 and PASS.
C4_WorkedExample ==
    /\ (/\ ret.op = "foundation_loads"
        /\ ret.args = <<Q(400), Q(700), Q(18), Q(24)>>
        /\ IsExample(foundation))
       => /\ foundation.foundation_self_weight = Q(60)
          /\ foundation.surcharge_load = R(7875, 100)
    /\ (ret.op = "total_force_Z_dir_service" /\ ExampleLoaded)
       => ret.out = R(123875, 100)
    /\ (ret.op = "total_force_Z_dir_ultimate" /\ ExampleLoaded)
       => ret.out = R(16065, 10)
    /\ (ret.op = "bearing_pressure_check_service" /\ ExampleLoaded)
       => /\ ret.out.bearing_pressure = R(1982, 10)
          /\ ret.out.allowable_pressure = Q(200)
          /\ ret.out.utilization_ratio = R(991, 1000)
          /\ ret.out.check_status = "PASS"

\* the bearing check of the loaded worked example has returned
C4_ExampleBearingChecked ==
    /\ ret.op = "bearing_pressure_check_service"
    /\ ExampleLoaded
    /\ ret.out.check_status = "PASS"

\* C5: the bearing check takes utilization = (service resultant / footprint
\* area) / soil_bearing_capacity, reports it to three decimals, and returns
\* PASS if and only if the utilization is <= 1.0, otherwise FAIL.
C5_BearingPassIffUtilizationAtMostOne ==
    ret.op = "bearing_pressure_check_service" =>
        LET service == QAdd(TotalDead(foundation),
                            QAdd(foundation.live_axial_load, foundation.wind_axial_load))
            area == R(foundation.foundation_length * foundation.foundation_width, 1000000)
            utilization == QDiv(QDiv(service, area), Q(foundation.soil_bearing_capacity))
        IN  /\ ret.out.utilization_ratio = Round(utilization, 3)
            /\ ret.out.check_status \in {"PASS", "FAIL"}
            /\ ret.out.check_status = "PASS" <=> QLe(utilization, Q(1))

\* the service pressure equals the capacity exactly and the check passed
C5_UtilizationExactlyOnePasses ==
    /\ ret.op = "bearing_pressure_check_service"
    /\ QAdd(TotalDead(foundation),
            QAdd(foundation.live_axial_load, foundation.wind_axial_load))
       = QMul(R(foundation.foundation_length * foundation.foundation_width, 1000000),
              Q(foundation.soil_bearing_capacity))
    /\ ret.out.utilization_ratio = Q(1)
    /\ ret.out.check_status = "PASS"

\* the reported demand of a shear result
ShearDemand(op, out) ==
    IF op = "punching_shear_at_critical_section" THEN out.punching_force
    ELSE out.shear_force

\* C6: in every result returned by the three shear checks design_strength is
\* phi_shear x nominal_strength and check_status is PASS if and only if the
\* reported demand is <= design_strength, otherwise FAIL.
C6_ShearVerdictAgainstDesignStrength ==
    (ret.op \in ShearChecks /\ ~IsRaised(ret.out)) =>
        /\ ret.out.design_strength = QMul(foundation.phi_shear, ret.out.nominal_strength)
        /\ ret.out.check_status \in {"PASS", "FAIL"}
        /\ ret.out.check_status = "PASS"
           <=> QLe(ShearDemand(ret.op, ret.out), ret.out.design_strength)

\* a punching check failed against a positive design strength that is below
\* the nominal strength the demand would have passed
C6_FailsBetweenDesignAndNominal ==
    /\ ret.op = "punching_shear_at_critical_section"
    /\ ~IsRaised(ret.out)
    /\ ret.out.check_status = "FAIL"
    /\ QLt(ret.out.design_strength, ret.out.punching_force)
    /\ QLe(ret.out.punching_force, ret.out.nominal_strength)

\* C7: at foundation_thickness = 83 (phi x Vc = 0) each shear check returns
\* normally with the infinite demand_capacity_ratio sentinel and FAIL, and
\* padFoundationDesignACI318 returns normally.
C7_ZeroStrengthGivesSentinelAndFail ==
    /\ (ret.op \in ShearChecks /\ ret.args[1] = Q(83))
       => /\ ~IsRaised(ret.out)
          /\ ret.out.demand_capacity_ratio = Inf
          /\ ret.out.check_status = "FAIL"
    /\ (ret.op = "padFoundationDesignACI318" /\ ret.args[3] = Q(83))
       => ~IsRaised(ret.out)

(***************************************************************************)
(* Properties of the capacity functions (SpecCap)                          *)
(***************************************************************************)
Returned(op) == ret.op = op /\ ret.out # Pending

\* the candidates of the claim: k = lambda * sqrt(f'c) * bo * d / 6
PunchK == QDiv(QMul(QMul(Sqrt(ret.args[3]), ret.args[1]), ret.args[2]), Q(6))

PunchCandidates ==
    <<QMul(QAdd(Q(2), QDiv(Q(4), ret.args[4])), PunchK),
      QMul(QAdd(QDiv(QMul(ret.args[5], ret.args[2]), ret.args[1]), Q(2)), PunchK),
      QMul(Q(4), PunchK)>>

PunchMinimum ==
    CHOOSE v \in {PunchCandidates[i] : i \in 1..3} :
        \A i \in 1..3 : QLe(v, PunchCandidates[i])

\* the first candidate in the order Vc1, Vc2, Vc3 that attains the minimum
PunchFirstMinimum ==
    <<"aspect_ratio", "location", "maximum">>[
        CHOOSE i \in 1..3 :
            /\ PunchCandidates[i] = PunchMinimum
            /\ \A j \in 1..(i - 1) : PunchCandidates[j] # PunchMinimum]

\* C8 as stated: Vc_governing is the minimum of Vc1, Vc2 and Vc3 and
\* governing_case names the first candidate that attains it.
C8_GoverningIsMinimum ==
    (Returned("punching_shear_strength_aci318") /\ ~IsRaised(ret.out)) =>
        /\ ret.out.Vc_governing = PunchMinimum
        /\ ret.out.governing_case = PunchFirstMinimum

\* C8: Vc_governing is the minimum of Vc1, Vc2 and Vc3 rounded to a whole
\* number, and governing_case names the first candidate in the order Vc1,
\* Vc2, Vc3 that attains the unrounded minimum.
C8_GoverningIsRoundedMinimum ==
    (Returned("punching_shear_strength_aci318") /\ ~IsRaised(ret.out)) =>
        /\ ret.out.Vc_governing = Round(PunchMinimum, 0)
        /\ ret.out.governing_case = PunchFirstMinimum

\* beta_c = 2 with alpha_s * d / bo >= 2: all three candidates tie, the
\* result names aspect_ratio, and its strength is not a whole number
C8_TieNamesAspectRatio ==
    /\ Returned("punching_shear_strength_aci318")
    /\ ~IsRaised(ret.out)
    /\ ret.args[4] = Q(2)
    /\ QLe(Q(2), QDiv(QMul(ret.args[5], ret.args[2]), ret.args[1]))
    /\ PunchCandidates[1] = PunchCandidates[3]
    /\ QLt(Q(0), PunchMinimum)
    /\ ret.out.governing_case = "aspect_ratio"
    /\ ret.out.Vc_governing # PunchMinimum

\* the quantities of the claim for the returned flexural call, phi = 0.9
FlexDiscriminant ==
    LET Rn == QDiv(QDiv(ret.args[1], R(9, 10)),
                   QMul(ret.args[2], QMul(ret.args[3], ret.args[3])))
    IN  QSub(Q(1), QDiv(QMul(Q(2), Rn), QMul(R(85, 100), ret.args[4])))

FlexRho ==
    QMul(QDiv(QMul(R(85, 100), ret.args[4]), ret.args[5]),
         QSub(Q(1), Sqrt(FlexDiscriminant)))

FlexRhoMax ==
    LET c_max == QDiv(ret.args[3], QAdd(Q(1), QDiv(R(5, 1000), R(3, 1000))))
    IN  QMul(QDiv(QMul(QMul(R(85, 100), whitney_stress_block_factor(ret.args[4])),
                       ret.args[4]), ret.args[5]),
             QDiv(c_max, ret.args[3]))

FlexSection ==
    /\ Returned("flexural_design_aci318")
    /\ QLt(Q(0), ret.args[2])
    /\ QLt(Q(0), ret.args[3])

\* the outcome classes of the claim, with the given steel area on PASS
FlexOutcome(area(_)) ==
    /\ ~IsRaised(ret.out)
    /\ IF QLt(FlexDiscriminant, Q(0))
       THEN /\ ret.out.status = "FAIL - Compression reinforcement required"
            /\ ret.out.area_of_steel = None
       ELSE IF QLt(FlexRhoMax, FlexRho)
       THEN /\ ret.out.status = "FAIL - Exceeds maximum reinforcement ratio"
            /\ ret.out.area_of_steel = None
       ELSE /\ ret.out.status = "PASS"
            /\ ret.out.area_of_steel = area(QMul(QMul(FlexRho, ret.args[2]), ret.args[3]))

FlexExact(x) == x

FlexWhole(x) == Round(x, 0)

FlexZeroDiscriminant == FlexSection /\ QIsZero(FlexDiscriminant)

\* C25 as stated: when the discriminant 1 - 2*Rn/(0.85*f'c) is exactly 0,
\* flexural_design_aci318 computes rho_required = 0.85*f'c/fy, returns neither
\* failure status and reports compression_steel_required false.
C25_ZeroDiscriminantIsFeasible ==
    FlexZeroDiscriminant =>
        /\ ~IsRaised(ret.out)
        /\ ret.out.rho_required = QDiv(QMul(R(85, 100), ret.args[4]), ret.args[5])
        /\ ret.out.status \notin {StatusCompression, StatusExceeds}
        /\ ret.out.compression_steel_required = FALSE

\* C25: when the discriminant is exactly 0, flexural_design_aci318 computes
\* rho_required = 0.85*f'c/fy and does not return the compression-
\* reinforcement failure; that ratio exceeds rho_max = 0.375 * beta1 *
\* 0.85*f'c/fy, so the call returns the exceeds-maximum failure with
\* area_of_steel None and compression_steel_required true.
C25_ZeroDiscriminantExceedsMaximum ==
    FlexZeroDiscriminant =>
        /\ ~IsRaised(ret.out)
        /\ ret.out.rho_required = QDiv(QMul(R(85, 100), ret.args[4]), ret.args[5])
        /\ QLt(ret.out.rho_max, ret.out.rho_required)
        /\ ret.out.status = StatusExceeds
        /\ ret.out.area_of_steel = None
        /\ ret.out.compression_steel_required = TRUE

\* Mu = 95625000, b = 1000, d = 100, f'c = 25, fy = 420 returned
C25_ZeroDiscriminantReturned ==
    /\ FlexZeroDiscriminant
    /\ ret.args = <<Q(95625000), Q(1000), Q(100), Q(25), Q(420)>>
    /\ ret.out.rho_required = R(85 * 25, 100 * 420)

\* C10: whitney_stress_block_factor is 0.85 for f'c <= 28, 0.65 for
\* f'c >= 55 and 0.85 - 0.05 * (f'c - 28) / 7 strictly between.
C10_WhitneyPiecewise ==
    Returned("whitney_stress_block_factor") =>
        LET fc == ret.args[1]
        IN  /\ QLe(fc, Q(28)) => ret.out = R(85, 100)
            /\ QLe(Q(55), fc) => ret.out = R(65, 100)
            /\ (QLt(Q(28), fc) /\ QLt(fc, Q(55)))
               => ret.out = QSub(R(85, 100),
                                 QDiv(QMul(R(5, 100), QSub(fc, Q(28))), Q(7)))

\* C11: whitney_stress_block_factor is non-increasing in f'c over all grades,
\* across the breakpoints 28 and 55, and its result lies in [0.65, 0.85].
C11_WhitneyNonIncreasingAndBounded ==
    Returned("whitney_stress_block_factor") =>
        /\ QLe(R(65, 100), ret.out)
        /\ QLe(ret.out, R(85, 100))
        /\ \A f2 \in WhitneyGrades :
               QLe(ret.args[1], f2) => QLe(whitney_stress_block_factor(f2), ret.out)

\* the call at the upper breakpoint 55 returned a value strictly inside the
\* range and strictly above the value of the next grade
C11_DropsAcrossUpperBreakpoint ==
    /\ Returned("whitney_stress_block_factor")
    /\ ret.args[1] = Q(55)
    /\ QLt(ret.out, R(85, 100))
    /\ QLt(whitney_stress_block_factor(R(111, 2)), ret.out)

\* C12: minimum_flexural_reinforcement_aci318 of the doubled width is twice
\* the returned value, and where 1.4*b*d/fy governs at fy and at fy/2 the
\* value at half the yield strength is twice the returned value.
C12_MinimumSteelProportional ==
    Returned("minimum_flexural_reinforcement_aci318") =>
        LET b == ret.args[1]
            d == ret.args[2]
            fc == ret.args[3]
            fy == ret.args[4]
            first_governs == QLe(QDiv(Sqrt(fc), Q(4)), R(14, 10))
        IN  /\ minimum_flexural_reinforcement_aci318(QMul(Q(2), b), d, fc, fy)
               = QMul(Q(2), ret.out)
            /\ first_governs
               => minimum_flexural_reinforcement_aci318(b, d, fc, QDiv(fy, Q(2)))
                  = QMul(Q(2), ret.out)

\* the bounds of the claim violated by the arguments of the returned call
ViolatedMaterialBounds ==
    {bound \in {"fc_min", "fc_max", "fy_min", "fy_max"} :
        \/ bound = "fc_min" /\ QLt(ret.args[1], Q(17))
        \/ bound = "fc_max" /\ QLt(Q(83), ret.args[1])
        \/ bound = "fy_min" /\ QLt(ret.args[2], Q(280))
        \/ bound = "fy_max" /\ QLt(Q(550), ret.args[2])}

\* C13: both implementations of validate_material_properties return without
\* raising, valid is true if and only if 17 <= f'c <= 83 and 280 <= fy <= 550,
\* every violated bound has its entry in errors, and valid is true exactly
\* when errors is empty.
C13_ValidIffWithinLimits ==
    (/\ ret.op \in {"concretedesignfunc_aci318.validate_material_properties",
                    "FoundationDesign.validate_material_properties"}
     /\ ret.out # Pending) =>
        /\ ~IsRaised(ret.out)
        /\ ret.out.valid <=> ViolatedMaterialBounds = {}
        /\ Len(ret.out.errors) = Cardinality(ViolatedMaterialBounds)
        /\ ret.out.valid <=> ret.out.errors = <<>>

(***************************************************************************)
(* Properties of the object's mutation (Spec)                              *)
(***************************************************************************)
\* footprint area (m2) x depth (mm -> m) x unit weight
FootprintLoad(self, depth, unit_weight) ==
    QMul(QMul(R(self.foundation_length * self.foundation_width, 1000000),
              QDiv(depth, Q(1000))), unit_weight)

\* what one call may do to the object and must return, by the call made
ServiceStep ==
    CASE ret'.op = "column_axial_loads" /\ ~IsRaised(ret'.out) ->
            foundation' = [foundation EXCEPT !.dead_axial_load = ret'.args[1],
                                             !.live_axial_load = ret'.args[2],
                                             !.wind_axial_load = ret'.args[3]]
      [] ret'.op = "foundation_loads" ->
            foundation' =
                [foundation EXCEPT
                    !.foundation_self_weight =
                        FootprintLoad(foundation, ret'.args[1], ret'.args[4]),
                    !.surcharge_load =
                        FootprintLoad(foundation, ret'.args[2], ret'.args[3])]
      [] ret'.op = "padFoundationDesignACI318" ->
            foundation' =
                [foundation EXCEPT
                    !.foundation_self_weight = FootprintLoad(foundation, ret'.args[3], Q(24)),
                    !.surcharge_load = FootprintLoad(foundation, ret'.args[4], Q(18))]
      [] ret'.op = "total_force_Z_dir_service" ->
            /\ foundation' = foundation
            /\ ret'.out = QAdd(QAdd(QAdd(foundation.dead_axial_load,
                                         foundation.live_axial_load),
                                    foundation.wind_axial_load),
                               QAdd(foundation.foundation_self_weight,
                                    foundation.surcharge_load))
      [] OTHER -> foundation' = foundation

\* C14: column_axial_loads replaces the three axial loads by its arguments,
\* foundation_loads replaces self-weight and surcharge by those of its
\* arguments, no other call changes them, and total_force_Z_dir_service
\* returns the sum of the five values the object holds at the call.
C14_ServiceIsSumOfLatestSetterValues == [][ServiceStep]_vars

\* the service resultant was returned on an object whose loads were set after
\* foundation_loads(400, 700, 18, 24), a zero dead load included
C14_ServiceAfterBothSetters ==
    /\ ret.op = "total_force_Z_dir_service"
    /\ foundation.dead_axial_load = Q(0)
    /\ foundation.live_axial_load = Q(300)
    /\ foundation.wind_axial_load = Q(200)
    /\ foundation.foundation_self_weight = FootprintLoad(foundation, Q(400), Q(24))
    /\ foundation.surcharge_load = FootprintLoad(foundation, Q(700), Q(18))
    /\ ret.out = QAdd(Q(500), QAdd(foundation.foundation_self_weight,
                                   foundation.surcharge_load))

\* C15: a constructor call with a non-positive dimension or capacity, a
\* column_axial_loads call with a non-numeric load and a foundation_loads call
\* with a non-positive thickness or a negative soil depth or unit weight all
\* raise, and the object never holds a self-weight or surcharge derived from
\* such a value.
C15_BadInputsAreRejected ==
    /\ (ret.op = "__init__" /\ \E f \in DOMAIN ret.args[1] \ {"col_pos_xdir", "col_pos_ydir"} :
                                   ret.args[1][f] <= 0)
       => IsRaised(ret.out)
    /\ (ret.op = "column_axial_loads" /\ \E i \in 1..3 : ~IsNumber(ret.args[i]))
       => IsRaised(ret.out)
    /\ (ret.op = "foundation_loads"
        /\ (\/ QLe(ret.args[1], Q(0))
            \/ \E i \in 2..4 : QLt(ret.args[i], Q(0))))
       => IsRaised(ret.out)
    /\ foundation # NoObject
       => /\ IsNumber(foundation.dead_axial_load)
          /\ QLe(Q(0), foundation.foundation_self_weight)
          /\ QLe(Q(0), foundation.surcharge_load)

\* a bearing check leaves the object as it was, and directly after another
\* bearing check it returns what that one returned
BearingCheckStep ==
    ret'.op = "bearing_pressure_check_service" =>
        /\ foundation' = foundation
        /\ ret.op = "bearing_pressure_check_service" => ret'.out = ret.out

C17_SelfWeightMatchesThicknessInUse ==
    /\ (ret.op \in ShearChecks /\ ~IsRaised(ret.out))
       => \E gc \in ConcreteUnitWeights :
              foundation.foundation_self_weight = FootprintLoad(foundation, ret.args[1], gc)
    /\ ret.op \in {"total_force_Z_dir_service", "total_force_Z_dir_ultimate",
                   "bearing_pressure_check_service"}
       => \E t \in LoadThicknesses \cup Thicknesses, gc \in ConcreteUnitWeights :
              foundation.foundation_self_weight = FootprintLoad(foundation, t, gc)

\* C18: every constructed object has column_length <= foundation_length,
\* column_width <= foundation_width and the column rectangle centred at
\* (col_pos_xdir, col_pos_ydir) inside the foundation footprint.
C18_ColumnInsideFootprint ==
    foundation # NoObject =>
        /\ foundation.column_length <= foundation.foundation_length
        /\ foundation.column_width <= foundation.foundation_width
        /\ 0 <= 2 * foundation.col_pos_xdir - foundation.column_length
        /\ 2 * foundation.col_pos_xdir + foundation.column_length
           <= 2 * foundation.foundation_length
        /\ 0 <= 2 * foundation.col_pos_ydir - foundation.column_width
        /\ 2 * foundation.col_pos_ydir + foundation.column_width
           <= 2 * foundation.foundation_width

OneWayChecks == {"one_way_shear_x_direction", "one_way_shear_y_direction"}

\* column position, column size and foundation size along the check's axis,
\* and the foundation size across it
AlongAxis(op, self) ==
    IF op = "one_way_shear_x_direction"
    THEN [pos |-> self.col_pos_xdir, col |-> self.column_length,
          size |-> self.foundation_length, across |-> self.foundation_width]
    ELSE [pos |-> self.col_pos_ydir, col |-> self.column_width,
          size |-> self.foundation_width, across |-> self.foundation_length]

\* column face + d on the far side, d = thickness - 75 - 8
FarCriticalSection(op, self, thickness) ==
    QAdd(QAdd(Q(AlongAxis(op, self).pos), R(AlongAxis(op, self).col, 2)),
         QSub(thickness, Q(83)))

\* C19: the shear_force of a one-way shear check is not negative when the
\* ultimate load is not negative, and is 0 when column face + d lies at or
\* beyond the foundation edge.
C19_OneWayDemandNeverNegative ==
    ret.op \in OneWayChecks =>
        /\ QLe(Q(0), total_force_Z_dir_ultimate(foundation))
           => QLe(Q(0), ret.out.shear_force)
        /\ QLe(Q(AlongAxis(ret.op, foundation).size),
               FarCriticalSection(ret.op, foundation, ret.args[1]))
           => ret.out.shear_force = Q(0)

\* a one-way check under a positive ultimate load whose critical section lies
\* strictly beyond the foundation edge returned a demand of 0
C19_SectionBeyondEdgeGivesZero ==
    /\ ret.op \in OneWayChecks
    /\ QLt(Q(0), total_force_Z_dir_ultimate(foundation))
    /\ QLt(Q(AlongAxis(ret.op, foundation).size),
           FarCriticalSection(ret.op, foundation, ret.args[1]))
    /\ ret.out.shear_force = Q(0)

\* C20: a one-way shear check puts its critical section at d from the column
\* face on the side of the nearer foundation edge, and its demand is the
\* ultimate pressure times the footprint area between that section and that
\* edge.
C20_OneWaySectionTowardNearerEdge ==
    ret.op \in OneWayChecks =>
        LET ax == AlongAxis(ret.op, foundation)
            d == QSub(ret.args[1], Q(83))
            far_side == ax.size <= 2 * ax.pos
            section == IF far_side
                       THEN QAdd(QAdd(Q(ax.pos), R(ax.col, 2)), d)
                       ELSE QSub(QSub(Q(ax.pos), R(ax.col, 2)), d)
            strip == IF far_side THEN QSub(Q(ax.size), section) ELSE section
            area == QDiv(QMul(QMax(strip, Q(0)), Q(ax.across)), Q(1000000))
            pressure == QDiv(total_force_Z_dir_ultimate(foundation),
                             R(foundation.foundation_length * foundation.foundation_width,
                               1000000))
        IN  /\ ret.out.critical_location = section
            /\ ret.out.shear_force = QMul(QMul(pressure, area), Q(1000))

(***************************************************************************)
(* Properties of the punching check and of the design procedure (Spec)     *)
(***************************************************************************)
\* the larger column side over the smaller one
ColumnAspect(self) ==
    IF self.column_length >= self.column_width
    THEN R(self.column_length, self.column_width)
    ELSE R(self.column_width, self.column_length)

\* C21: punching_shear_at_critical_section uses the rectangle
\* (column_length + d) x (column_width + d), with perimeter twice the sum of
\* its sides and enclosed area their product; the demand is the ultimate load
\* minus (ultimate load / footprint area) x enclosed area; the capacity is
\* evaluated with beta_c = larger / smaller column side and alpha_s = 40.
C21_PunchingCriticalRectangle ==
    (ret.op = "punching_shear_at_critical_section" /\ ~IsRaised(ret.out)) =>
        LET d == QSub(ret.args[1], Q(83))
            side_x == QAdd(Q(foundation.column_length), d)
            side_y == QAdd(Q(foundation.column_width), d)
            perimeter == QMul(Q(2), QAdd(side_x, side_y))
            enclosed == QMul(side_x, side_y)
            ultimate == QMul(total_force_Z_dir_ultimate(foundation), Q(1000))
            capacity == punching_shear_strength_aci318(
                            perimeter, d, ret.args[2], ColumnAspect(foundation),
                            Q(40), Q(1))
        IN  /\ ret.out.critical_section.critical_length = side_x
            /\ ret.out.critical_section.critical_width = side_y
            /\ ret.out.critical_section.perimeter = perimeter
            /\ ret.out.critical_section.area = enclosed
            /\ ret.out.punching_force =
                   QSub(ultimate,
                        QMul(QDiv(ultimate, Q(area_of_foundation(foundation))), enclosed))
            /\ ret.out.nominal_strength = capacity.Vc_governing
            /\ ret.out.governing_case = capacity.governing_case

\* a loaded foundation with a 2:1 column checked at d = 100
C21_RectangularColumnPunched ==
    /\ ret.op = "punching_shear_at_critical_section"
    /\ ~IsRaised(ret.out)
    /\ ret.args[1] = Q(183)
    /\ foundation.column_length = 2 * foundation.column_width
    /\ QLt(Q(0), ret.out.punching_force)
    /\ ret.out.critical_section.area = Q(500 * 300)

(***************************************************************************)
(* Properties of the design procedure (SpecDesign)                         *)
(***************************************************************************)
\* a report was returned; its arguments by name
DesignReturned == ret.op = "padFoundationDesignACI318" /\ ~IsRaised(ret.out)

DesignArgs ==
    [concrete_grade |-> ret.args[1], steel_grade |-> ret.args[2],
     foundation_thickness |-> ret.args[3], soil_depth_abv_foundation |-> ret.args[4],
     steel_cover |-> ret.args[5], bar_dia_x |-> ret.args[6], bar_dia_y |-> ret.args[7]]

\* thickness - cover - (own bar diameter)/2, less the diameter of a layer below
LayerDepth(own_diameter, layer_below) ==
    QSub(QSub(QSub(DesignArgs.foundation_thickness, DesignArgs.steel_cover), layer_below),
         QDiv(own_diameter, Q(2)))

\* C22: in padFoundationDesignACI318 d_x = thickness - cover - bar_dia_x/2 and
\* d_y = thickness - cover - bar_dia_x - bar_dia_y/2 for every pair of bar
\* diameters; the depths are read off the report's minimum steel areas and
\* flexural results, which are functions of them.
C22_SecondLayerLosesFirstLayerDiameter ==
    DesignReturned =>
        LET d_x == LayerDepth(DesignArgs.bar_dia_x, Q(0))
            d_y == LayerDepth(DesignArgs.bar_dia_y, DesignArgs.bar_dia_x)
            flexure_x == flexural_design_aci318(design_Mu, Q(foundation.foundation_width), d_x,
                             DesignArgs.concrete_grade, DesignArgs.steel_grade, R(9, 10))
            flexure_y == flexural_design_aci318(design_Mu, Q(foundation.foundation_length), d_y,
                             DesignArgs.concrete_grade, DesignArgs.steel_grade, R(9, 10))
        IN  /\ ret.out.flexural_design.x_direction.minimum_As =
                   minimum_flexural_reinforcement_aci318(Q(foundation.foundation_width), d_x,
                       DesignArgs.concrete_grade, DesignArgs.steel_grade)
            /\ ret.out.flexural_design.y_direction.minimum_As =
                   minimum_flexural_reinforcement_aci318(Q(foundation.foundation_length), d_y,
                       DesignArgs.concrete_grade, DesignArgs.steel_grade)
            /\ ret.out.flexural_design.x_direction.status = flexure_x.status
            /\ ret.out.flexural_design.y_direction.status = flexure_y.status
            /\ ret.out.flexural_design.x_direction.required_As = flexure_x.area_of_steel
            /\ ret.out.flexural_design.y_direction.required_As = flexure_y.area_of_steel

FlexureFailures == {StatusCompression, StatusExceeds}

\* C23: in the report the required steel area of each direction is the
\* larger of the area from flexural_design_aci318 and the minimum area, so
\* required_As >= minimum_As whenever the flexural status is PASS; the status
\* is PASS unless flexural_design_aci318 reported one of its two failures.
C23_RequiredSteelIsGoverning ==
    DesignReturned =>
        \A direction \in {"x_direction", "y_direction"} :
            LET flexure == ret.out.flexural_design[direction]
            IN  /\ flexure.status \in {"PASS"} \cup FlexureFailures
                /\ flexure.status = "PASS" =>
                       /\ IsNumber(flexure.required_As)
                       /\ QLe(flexure.minimum_As, flexure.required_As)

\* M = q * L_cantilever^2 / 2 * (width of the strip), in N.mm, for the
\* pressure q of a vertical load in kN over the footprint
CantileverMoment(load, dimension, column_dimension, strip_width) ==
    LET q == QDiv(QMul(load, Q(1000)), Q(area_of_foundation(foundation)))
        L_cantilever == R(dimension - column_dimension, 2)
    IN  QMul(QDiv(QMul(q, QMul(L_cantilever, L_cantilever)), Q(2)), Q(strip_width))

\* C24: the design moment of each direction is the cantilever moment at the
\* column face, M = q * L_cantilever^2 / 2 per unit width with L_cantilever =
\* (foundation dimension - column dimension)/2, so that it follows the loads
\* and the geometry; the moment is read off the flexural result of the x
\* direction, for the pressure of the ultimate and of the service load.
C24_DesignMomentFromBearingPressure ==
    DesignReturned =>
        \E load \in {total_force_Z_dir_ultimate(foundation),
                     total_force_Z_dir_service(foundation)} :
            LET Mu_x == CantileverMoment(load, foundation.foundation_length,
                                         foundation.column_length, foundation.foundation_width)
                flexure_x == flexural_design_aci318(
                                 Mu_x, Q(foundation.foundation_width),
                                 design_d_x(DesignArgs.foundation_thickness,
                                            DesignArgs.steel_cover, DesignArgs.bar_dia_x),
                                 DesignArgs.concrete_grade, DesignArgs.steel_grade, R(9, 10))
            IN  /\ ret.out.flexural_design.x_direction.status = flexure_x.status
                /\ ret.out.flexural_design.x_direction.required_As = flexure_x.area_of_steel

\* C27: within one padFoundationDesignACI318 call the effective depth of the
\* punching and one-way shear stages is the depth foundation_thickness -
\* steel_cover - bar_dia_x/2 of the flexural stage, for every cover and bar
\* diameter passed; the depth is read off the critical sections reported.
C27_ShearStagesUseDesignDepth ==
    DesignReturned =>
        LET d == design_d_x(DesignArgs.foundation_thickness, DesignArgs.steel_cover,
                            DesignArgs.bar_dia_x)
            shear == ret.out.shear_design
        IN  /\ shear.punching_shear.critical_section.critical_length =
                   QAdd(Q(foundation.column_length), d)
            /\ shear.punching_shear.critical_section.critical_width =
                   QAdd(Q(foundation.column_width), d)
            /\ shear.punching_shear.critical_section.distance_from_face = QDiv(d, Q(2))
            /\ shear.one_way_x.critical_location =
                   QAdd(QAdd(Q(foundation.col_pos_xdir), R(foundation.column_length, 2)), d)
            /\ shear.one_way_y.critical_location =
                   QAdd(QAdd(Q(foundation.col_pos_ydir), R(foundation.column_width, 2)), d)

\* a design call that directly follows a foundation_loads call and is given
\* the same thickness and soil depth leaves the object as it was
DesignAfterLoadsStep ==
    (/\ ret.op = "foundation_loads"
     /\ ret'.op = "padFoundationDesignACI318"
     /\ ret'.args[3] = ret.args[1]
     /\ ret'.args[4] = ret.args[2]) =>
        /\ foundation'.foundation_self_weight = foundation.foundation_self_weight
        /\ foundation'.surcharge_load = foundation.surcharge_load
        /\ total_force_Z_dir_service(foundation') = total_force_Z_dir_service(foundation)
        /\ total_force_Z_dir_ultimate(foundation') = total_force_Z_dir_ultimate(foundation)
        /\ foundation' = foundation

\* C28: padFoundationDesignACI318 called with the foundation_thickness and
\* soil_depth_abv_foundation of the preceding foundation_loads call leaves
\* the object's self-weight and surcharge, and so its service and ultimate
\* resultants, unchanged, whatever unit weights that call used; it also
\* leaves every load-case value and every geometry field unchanged.
C28_DesignKeepsFoundationLoads == [][DesignAfterLoadsStep]_vars

\* the ratio a result reports is a number not above 1.0
ReportedRatioAtMostOne(ratio) == IsNumber(ratio) /\ QLe(ratio, Q(1))

\* the check results of the last call: those of a report, or the one result
\* of a check called on its own
CheckResults ==
    IF IsRaised(ret.out) THEN {}
    ELSE IF ret.op = "padFoundationDesignACI318"
    THEN {[status |-> ret.out.bearing_pressure.check_status,
           ratio |-> ret.out.bearing_pressure.utilization_ratio]}
         \cup {[status |-> ret.out.shear_design[check].check_status,
                ratio |-> ret.out.shear_design[check].demand_capacity_ratio] :
                   check \in {"punching_shear", "one_way_x", "one_way_y"}}
    ELSE IF ret.op = "bearing_pressure_check_service"
    THEN {[status |-> ret.out.check_status, ratio |-> ret.out.utilization_ratio]}
    ELSE IF ret.op = "punching_shear_at_critical_section"
    THEN {[status |-> ret.out.check_status, ratio |-> ret.out.demand_capacity_ratio]}
    ELSE {}

\* C26: in every check result check_status is "PASS" if and only if the
\* demand_capacity_ratio (shear checks) or utilization_ratio (bearing check)
\* that the same result reports is <= 1.0, also for ratios that differ from
\* 1.0 by less than the three decimals reported.
C26_VerdictAgreesWithReportedRatio ==
    \A result \in CheckResults :
        result.status = "PASS" <=> ReportedRatioAtMostOne(result.ratio)

\* C29: for every accepted geometry and thickness with a non-negative
\* ultimate load the punching_force returned by
\* punching_shear_at_critical_section lies between 0 and the ultimate load,
\* also when the critical rectangle is larger than the footprint.
C29_PunchingDemandWithinUltimateLoad ==
    (/\ ret.op = "punching_shear_at_critical_section"
     /\ ~IsRaised(ret.out)
     /\ QLe(Q(0), total_force_Z_dir_ultimate(foundation))) =>
        /\ QLe(Q(0), ret.out.punching_force)
        /\ QLe(ret.out.punching_force,
               QMul(total_force_Z_dir_ultimate(foundation), Q(1000)))

(***************************************************************************)
(* Properties of the load setters (SpecSetters)                            *)
(***************************************************************************)
\* the three attributes each setter writes
SetterFields ==
    [column_axial_loads |->
         <<"dead_axial_load", "live_axial_load", "wind_axial_load">>,
     column_horizontal_loads_xdir |->
         <<"dead_horizontal_load_xdir", "live_horizontal_load_xdir",
           "wind_horizontal_load_xdir">>,
     column_horizontal_loads_ydir |->
         <<"dead_horizontal_load_ydir", "live_horizontal_load_ydir",
           "wind_horizontal_load_ydir">>,
     column_moments_xdir |->
         <<"dead_moment_xdir", "live_moment_xdir", "wind_moment_xdir">>,
     column_moments_ydir |->
         <<"dead_moment_ydir", "live_moment_ydir", "wind_moment_ydir">>]

SetterStep ==
    ret'.op \in DOMAIN SetterFields =>
        LET fields == SetterFields[ret'.op]
            args == ret'.args
        IN  IF \A i \in 1..3 : IsNumber(args[i])
            THEN /\ ret'.out = None
                 /\ \A i \in 1..3 : foundation'[fields[i]] = args[i]
                 /\ \A f \in DOMAIN foundation \ {fields[i] : i \in 1..3} :
                        foundation'[f] = foundation[f]
            ELSE /\ IsRaised(ret'.out)
                 /\ foundation' = foundation

\* C30: a load setter call is all-or-nothing: if any of its three arguments
\* is not a number the call raises and no field of the object changes; if all
\* three are numbers exactly the three fields of that case group are replaced
\* and every other field is left unchanged.
C30_SetterAllOrNothing == [][SetterStep]_vars

\* column_moments_xdir raised on its last argument after two valid ones, on
\* an object that holds other values for them and loads of another group
C30_RaisedOnLastArgument ==
    /\ ret.op = "column_moments_xdir"
    /\ IsRaised(ret.out)
    /\ IsNumber(ret.args[1]) /\ IsNumber(ret.args[2])
    /\ foundation.dead_moment_xdir = Q(-30)
    /\ foundation.live_moment_xdir = Q(0)
    /\ foundation.dead_axial_load = Q(50)
====
